---- MODULE Spec2Model ----
(***************************************************************************)
(* The background task scheduler of eve-roster (class Scheduler).          *)
(*                                                                         *)
(* A job is identified by its executionId.  The scheduler's state is the   *)
(* list of running jobs, the insertion-ordered map of channels and the     *)
(* module-level execution id counter.  Every synchronous piece of code     *)
(* that runs to completion between two suspension points is one action:    *)
(* runTask, the promise callbacks of _executeJob and the timer callback.   *)
(***************************************************************************)
EXTENDS Integers, Sequences, FiniteSets

VARIABLES jobs, runningJobs, channels, nextExecutionId, thrown

vars == <<jobs, runningJobs, channels, nextExecutionId, thrown>>

(* ------------------------------ bounds --------------------------------- *)

\* Number of Job objects the callers create in one run of the model.
MaxJobs == 3

\* Number of incidents in one run of the model: job.warning() and job.error()
\* calls of executors, rejections of dao.cron.startJob and dao.cron.finishJob,
\* throws and rejections of executors.
MaxIncidents == 1

\* Task names passed to runTask.
TaskNames == {"A", "B"}

\* Channel names passed in options.channel.
ChannelNames == {"x", "y"}

\* Jobs created in the runs that start with three channels in use (SpecUnstall).
MaxJobsUnstall == 5

\* Task names and channel names of those runs.
UnstallTaskNames == {"A", "B", "C"}

UnstallChannelNames == {"x", "y", "z"}

\* Jobs created in the runs checked for liveness (SpecLive).
MaxJobsLive == 2

\* Jobs and incidents in the runs that check the result classification
\* (SpecClassify): a job can get a warning and an error, and another a warning.
MaxJobsClassify == 2

MaxIncidentsClassify == 3

\* Jobs created in the runs that start with two jobs waiting in one channel
\* (SpecQueue).
MaxJobsQueue == 5

\* Jobs in the runs that start with two jobs waiting in one channel and in
\* which the queues are watched until they drain (SpecDrain): the four of the
\* start and no more.
MaxJobsDrain == 4

(* ----------------------------- constants ------------------------------- *)

\* `undefined` as a job reference (channel.runningJob, findWhere's result).
Nil == -1

\* `undefined` as options.channel / job.channel.
NoChannel == "undefined"

\* No exception has escaped a handler.
NoError == "none"

(* ------------------------------ helpers -------------------------------- *)

Min(S) == CHOOSE x \in S : \A y \in S : x <= y

\* Array.prototype.splice(i, 1): the sequence without its i-th element.
Splice(seq, i) == [k \in 1..(Len(seq) - 1) |-> IF k < i THEN seq[k] ELSE seq[k + 1]]

\* Array.prototype.indexOf, 1-based; 0 when absent.
IndexOf(seq, x) ==
  LET hits == {i \in 1..Len(seq) : seq[i] = x}
  IN IF hits = {} THEN 0 ELSE Min(hits)

Range(seq) == {seq[i] : i \in 1..Len(seq)}

\* The element of a one-element set.  {F(x) : x \in {e}} names the value of e
\* as x, so that e is evaluated once however often F uses it.
TheOne(S) == CHOOSE x \in S : TRUE

\* The scheduler state as one value, threaded through the handlers.
State == [jobs |-> jobs, runningJobs |-> runningJobs, channels |-> channels,
          nextExecutionId |-> nextExecutionId, thrown |-> thrown]

\* `throw new Error(msg)`: the rest of the handler is skipped.
Throw(s, msg) == [s EXCEPT !.thrown = msg]

(* ------------------------------- JobImpl ------------------------------- *)

\* new JobImpl(executionId, taskName, executor, timeout, channel, silent)
NewJob(executionId, taskName, channel) ==
  [executionId |-> executionId,
   taskName |-> taskName, channel |-> channel, status |-> "queued",
   result |-> "none", timedOut |-> FALSE, timeoutId |-> "unset",
   logId |-> "unset", warnings |-> 0, errors |-> 0, pc |-> "created",
   jobResult |-> "none", invocations |-> 0, finishJobCalls |-> 0,
   loggedResult |-> "none", dbFailures |-> 0, executorError |-> FALSE]

\* job.setStatus(status, result)
SetStatus(s, j, status, result) ==
  [s EXCEPT !.jobs[j].status = status, !.jobs[j].result = result]

\* job.error(message)
JobError(s, j) == [s EXCEPT !.jobs[j].errors = @ + 1]

\* job.warning(message)
JobWarning(s, j) == [s EXCEPT !.jobs[j].warnings = @ + 1]

(* ------------------------------ Scheduler ------------------------------ *)

\* Mutant of FindRunningJob: the scan starts at the second element (off by one).
FindRunningJobSkipsFirst(s, taskName) ==
  LET hits == {i \in 2..Len(s.runningJobs) :
                 s.jobs[s.runningJobs[i]].taskName = taskName}
  IN IF hits = {} THEN Nil ELSE s.runningJobs[Min(hits)]

\* findWhere(this._runningJobs, { taskName }): the first match, or undefined.
FindRunningJob(s, taskName) ==
  LET hits == {i \in 1..Len(s.runningJobs) :
                 s.jobs[s.runningJobs[i]].taskName = taskName}
  IN IF hits = {} THEN Nil ELSE s.runningJobs[Min(hits)]

IsRunning(s, taskName) == FindRunningJob(s, taskName) # Nil

\* Position of the channel named channelName in the map's insertion order; 0 if absent.
ChannelIndex(s, channelName) ==
  LET hits == {i \in 1..Len(s.channels) : s.channels[i].name = channelName}
  IN IF hits = {} THEN 0 ELSE Min(hits)

\* _getChannel: creates the channel on first reference.
GetChannel(s, channelName) ==
  IF ChannelIndex(s, channelName) # 0 THEN s
  ELSE [s EXCEPT !.channels =
          Append(@, [name |-> channelName, runningJob |-> Nil, queue |-> <<>>])]

\* The synchronous part of _executeJob: the two guards and the push.
ExecuteJob(s, j) ==
  IF s.thrown # NoError THEN s
  ELSE IF s.jobs[j].status # "queued" THEN Throw(s, "Job already executed")
  ELSE IF IsRunning(s, s.jobs[j].taskName) THEN Throw(s, "Task already running")
  ELSE [s EXCEPT !.runningJobs = Append(@, j), !.jobs[j].pc = "startJob"]

\* Mutant of TryRunNextJobInChannel: only the head of the queue is considered.
TryRunHeadOfChannel(s, ci) ==
  IF s.thrown # NoError THEN s
  ELSE IF s.channels[ci].runningJob # Nil THEN s
  ELSE
    LET queue == s.channels[ci].queue
    IN IF queue = <<>> \/ IsRunning(s, s.jobs[queue[1]].taskName) THEN s
       ELSE ExecuteJob([s EXCEPT !.channels[ci].queue = Splice(queue, 1),
                                 !.channels[ci].runningJob = queue[1]], queue[1])

\* Mutant of TryRunNextJobInChannel: the loop keeps the last queued job whose
\* name is not running instead of stopping at the first.
TryRunLastFreeJobInChannel(s, ci) ==
  IF s.thrown # NoError THEN s
  ELSE IF s.channels[ci].runningJob # Nil THEN s
  ELSE
    LET queue == s.channels[ci].queue
        free == {i \in 1..Len(queue) : ~IsRunning(s, s.jobs[queue[i]].taskName)}
    IN IF free = {} THEN s
       ELSE LET i == CHOOSE m \in free : \A k \in free : k <= m
                job == queue[i]
            IN ExecuteJob([s EXCEPT !.channels[ci].queue = Splice(queue, i),
                                    !.channels[ci].runningJob = job], job)

\* Mutant of TryRunNextJobInChannel: the early return on a busy channel is missing.
TryRunNextJobInBusyChannel(s, ci) ==
  IF s.thrown # NoError THEN s
  ELSE
    LET queue == s.channels[ci].queue
        free == {i \in 1..Len(queue) : ~IsRunning(s, s.jobs[queue[i]].taskName)}
    IN IF free = {} THEN s
       ELSE LET i == Min(free)
                job == queue[i]
            IN ExecuteJob([s EXCEPT !.channels[ci].queue = Splice(queue, i),
                                    !.channels[ci].runningJob = job], job)

\* _tryRunNextJobInChannel, for the channel at position ci.
TryRunNextJobInChannel(s, ci) ==
  IF s.thrown # NoError THEN s
  ELSE IF s.channels[ci].runningJob # Nil THEN s
  ELSE
    LET queue == s.channels[ci].queue
        free == {i \in 1..Len(queue) : ~IsRunning(s, s.jobs[queue[i]].taskName)}
    IN IF free = {} THEN s
       ELSE LET i == Min(free)
                job == queue[i]
            IN ExecuteJob([s EXCEPT !.channels[ci].queue = Splice(queue, i),
                                    !.channels[ci].runningJob = job], job)

\* _tryToUnstallChannels: every channel, in the map's insertion order.
RECURSIVE UnstallFrom(_, _)
UnstallFrom(s, ci) ==
  IF ci > Len(s.channels) THEN s
  ELSE TheOne({UnstallFrom(s1, ci + 1) : s1 \in {TryRunNextJobInChannel(s, ci)}})

TryToUnstallChannels(s) == IF s.thrown # NoError THEN s ELSE UnstallFrom(s, 1)

\* _queueJobToChannel
QueueJobToChannel(s, j, ci) ==
  IF s.thrown # NoError THEN s
  ELSE TryRunNextJobInChannel([s EXCEPT !.channels[ci].queue = Append(@, j)], ci)

\* Mutant of RemoveJobFromChannel: the runningJob slot is not cleared.
RemoveJobFromChannelKeepsSlot(s, channelName, j) ==
  IF s.thrown # NoError THEN s
  ELSE IF channelName = NoChannel THEN s
  ELSE
    LET s1 == GetChannel(s, channelName)
        ci == ChannelIndex(s1, channelName)
        i == IndexOf(s1.channels[ci].queue, j)
    IN IF s1.channels[ci].runningJob = j THEN s1
       ELSE IF i = 0 THEN Throw(s1, "Cannot remove job from channel")
       ELSE [s1 EXCEPT !.channels[ci].queue = Splice(@, i)]

\* _removeJobFromChannel
RemoveJobFromChannel(s, channelName, j) ==
  IF s.thrown # NoError THEN s
  ELSE IF channelName = NoChannel THEN s
  ELSE
    LET s1 == GetChannel(s, channelName)
        ci == ChannelIndex(s1, channelName)
        i == IndexOf(s1.channels[ci].queue, j)
    IN IF s1.channels[ci].runningJob = j
         THEN [s1 EXCEPT !.channels[ci].runningJob = Nil]
       ELSE IF i = 0 THEN Throw(s1, "Cannot remove job from channel")
       ELSE [s1 EXCEPT !.channels[ci].queue = Splice(@, i)]

\* Mutant of UnregisterJob: the channels are not re-examined.
UnregisterJobNoUnstall(s, j) ==
  IF s.thrown # NoError THEN s
  ELSE
    LET jobIndex == IndexOf(s.runningJobs, j)
    IN IF jobIndex = 0 THEN Throw(s, "Orphaned job detected")
       ELSE RemoveJobFromChannel(
              [s EXCEPT !.runningJobs = Splice(@, jobIndex)],
              s.jobs[j].channel, j)

\* _unregisterJob
UnregisterJob(s, j) ==
  IF s.thrown # NoError THEN s
  ELSE
    LET jobIndex == IndexOf(s.runningJobs, j)
    IN IF jobIndex = 0 THEN Throw(s, "Orphaned job detected")
       ELSE TheOne({TryToUnstallChannels(s1) :
                      s1 \in {RemoveJobFromChannel(
                                [s EXCEPT !.runningJobs = Splice(@, jobIndex)],
                                s.jobs[j].channel, j)}})

\* Mutant of TimeoutJob: timedOut is set but the job is not unregistered.
TimeoutJobOnlyFlags(s, j) ==
  [s EXCEPT !.jobs[j].timeoutId = "fired", !.jobs[j].timedOut = TRUE]

\* Mutant of TimeoutJob: the timeout is recorded as an error of the job.
TimeoutJobRecordsError(s, j) ==
  TheOne({IF s1.thrown # NoError THEN s1
          ELSE JobError([s1 EXCEPT !.jobs[j].timedOut = TRUE], j) :
            s1 \in {UnregisterJob([s EXCEPT !.jobs[j].timeoutId = "fired"], j)}})

\* Mutant of TimeoutJob: the job is unregistered but timedOut is never set.
TimeoutJobKeepsFlag(s, j) ==
  UnregisterJob([s EXCEPT !.jobs[j].timeoutId = "fired"], j)

\* _timeoutJob: the timer callback.
TimeoutJob(s, j) ==
  TheOne({IF s1.thrown # NoError THEN s1 ELSE [s1 EXCEPT !.jobs[j].timedOut = TRUE] :
            s1 \in {UnregisterJob([s EXCEPT !.jobs[j].timeoutId = "fired"], j)}})

\* Mutant of FindQueuedTaskInChannel: the queue is never searched.
FindQueuedTaskNowhere(s, taskName, channelName) == Nil

\* Mutant of FindQueuedTaskInChannel: the queues of all channels are searched,
\* whatever channel was asked for.
FindQueuedTaskAnywhere(s, taskName, channelName) ==
  LET hits == {q \in DOMAIN s.jobs :
                 /\ s.jobs[q].taskName = taskName
                 /\ \E ci \in 1..Len(s.channels) :
                      q \in Range(s.channels[ci].queue)}
  IN IF hits = {} THEN Nil ELSE Min(hits)

\* _findQueuedTaskInChannel, on the state _getChannel has left.
FindQueuedTaskInChannel(s, taskName, channelName) ==
  IF channelName = NoChannel THEN Nil
  ELSE
    LET queue == s.channels[ChannelIndex(s, channelName)].queue
        hits == {i \in 1..Len(queue) : s.jobs[queue[i]].taskName = taskName}
    IN IF hits = {} THEN Nil ELSE queue[Min(hits)]

\* The Job objects are numbered in the order of their creation: the number of
\* the object that the next `new JobImpl` creates.
NewJobRef(s) == Cardinality(DOMAIN s.jobs)

\* Mutant of CreateAndRunJob: _nextExecutionId++ is missing.
CreateAndRunJobNoIncrement(s, taskName, channelName) ==
  LET j == NewJobRef(s)
      s1 == [s EXCEPT !.jobs = [e \in 0..j |-> IF e = j
                                                 THEN NewJob(s.nextExecutionId,
                                                             taskName, channelName)
                                                 ELSE s.jobs[e]]]
  IN IF channelName = NoChannel THEN ExecuteJob(s1, j)
     ELSE LET s2 == GetChannel(s1, channelName)
          IN QueueJobToChannel(s2, j, ChannelIndex(s2, channelName))

\* _createAndRunJob: the new job's executionId is the counter's value.
CreateAndRunJob(s, taskName, channelName) ==
  LET j == NewJobRef(s)
      s1 == [s EXCEPT !.jobs = [e \in 0..j |-> IF e = j
                                                 THEN NewJob(s.nextExecutionId,
                                                             taskName, channelName)
                                                 ELSE s.jobs[e]],
                      !.nextExecutionId = @ + 1]
  IN IF channelName = NoChannel THEN ExecuteJob(s1, j)
     ELSE LET s2 == GetChannel(s1, channelName)
          IN QueueJobToChannel(s2, j, ChannelIndex(s2, channelName))

\* Mutant of RunTask: the running set is not consulted before the queue.
\* Mutant of RunTask: the channel's queue is searched before the running set.
RunTaskPrefersQueued(s, taskName, channelName) ==
  LET running == FindRunningJob(s, taskName)
      s1 == IF channelName = NoChannel THEN s ELSE GetChannel(s, channelName)
      queued == FindQueuedTaskInChannel(s1, taskName, channelName)
  IN IF queued # Nil THEN [state |-> s1, job |-> queued]
     ELSE IF running # Nil THEN [state |-> s1, job |-> running]
     ELSE [state |-> CreateAndRunJob(s, taskName, channelName),
           job |-> NewJobRef(s)]

RunTaskChecksQueueOnly(s, taskName, channelName) ==
  LET s1 == IF channelName = NoChannel THEN s ELSE GetChannel(s, channelName)
      queued == FindQueuedTaskInChannel(s1, taskName, channelName)
  IN IF queued # Nil THEN [state |-> s1, job |-> queued]
     ELSE [state |-> CreateAndRunJob(s, taskName, channelName),
           job |-> NewJobRef(s)]

\* runTask: the state it leaves and the job it returns.
RunTask(s, taskName, channelName) ==
  LET running == FindRunningJob(s, taskName)
      s1 == IF channelName = NoChannel THEN s ELSE GetChannel(s, channelName)
      queued == FindQueuedTaskInChannel(s1, taskName, channelName)
  IN IF running # Nil THEN [state |-> s, job |-> running]
     ELSE IF queued # Nil THEN [state |-> s1, job |-> queued]
     ELSE [state |-> CreateAndRunJob(s, taskName, channelName),
           job |-> NewJobRef(s)]

\* Mutant of GetRunningJobs: the jobs are selected by their status.
GetRunningJobsByStatus(s) ==
  SelectSeq([i \in 1..s.nextExecutionId |-> i - 1],
            LAMBDA j : s.jobs[j].status = "running")

\* getRunningJobs: return this._runningJobs.
GetRunningJobs(s) == s.runningJobs

(* ---------------------- _executeJob's promise chain -------------------- *)

\* notNil(value) of util/assert: throws when the value is null or undefined.
NotNilThrows(value) == value = "unset"

\* The second .catch of the chain: logger.error('DB failure when trying to log
\* cron job failure :('), and the chain goes on.
LogDbFailure(s, j) == [s EXCEPT !.jobs[j].dbFailures = @ + 1]

\* Mutant of Unregistered: the cleanup runs whether or not the job timed out.
UnregisteredAlways(s, j) ==
  TheOne({TryToUnstallChannels(s1) : s1 \in {UnregisterJob(s, j)}})

\* if (!job.timedOut) { this._unregisterJob(job); this._tryToUnstallChannels(); }
Unregistered(s, j) ==
  IF s.jobs[j].timedOut THEN s
  ELSE TheOne({TryToUnstallChannels(s1) : s1 \in {UnregisterJob(s, j)}})

\* Mutant of FinalCallback: the job is marked finished but never unregistered.
FinalCallbackKeepsRegistered(s, j) ==
  [SetStatus(s, j, "finished", s.jobs[j].jobResult) EXCEPT !.jobs[j].pc = "done"]

\* The last .then of the chain (after the .catch that swallows a logging failure).
FinalCallback(s, j) ==
  TheOne({IF s1.thrown # NoError THEN s1
          ELSE [SetStatus(s1, j, "finished", s1.jobs[j].jobResult)
                  EXCEPT !.jobs[j].pc = "done"] :
            s1 \in {Unregistered(s, j)}})

\* Mutant of Classify: the warnings are looked at before the errors.
ClassifyWarningsFirst(job) ==
  IF job.warnings > 0 THEN "partial"
  ELSE IF job.errors > 0 THEN "failure"
  ELSE "success"

\* if errors.length > 0 'failure', else if warnings.length > 0 'partial', else 'success'.
Classify(job) ==
  IF job.errors > 0 THEN "failure"
  ELSE IF job.warnings > 0 THEN "partial"
  ELSE "success"

\* Mutant of SettledCallback: the executorError is not looked at.
SettledCallbackDropsError(s, j, executorError) ==
  LET s2 == [s EXCEPT !.jobs[j].jobResult = Classify(s.jobs[j])]
      job == s2.jobs[j]
  IN IF ~job.timedOut /\ NotNilThrows(job.timeoutId)
       THEN FinalCallback(LogDbFailure(s2, j), j)
     ELSE LET s3 == IF job.timedOut THEN s2
                    ELSE [s2 EXCEPT !.jobs[j].timeoutId = "cleared"]
          IN IF NotNilThrows(job.logId) THEN FinalCallback(LogDbFailure(s3, j), j)
             ELSE [s3 EXCEPT !.jobs[j].finishJobCalls = @ + 1,
                             !.jobs[j].loggedResult = job.jobResult,
                             !.jobs[j].pc = "finishJob"]

\* The middle .then of the chain: records the executor's error, classifies,
\* clears the timer and calls dao.cron.finishJob.  A throw of notNil rejects the
\* chain, which the following .catch swallows, so the last .then runs at once.
SettledCallback(s, j, executorError) ==
  LET s1 == IF executorError
              THEN [JobError(s, j) EXCEPT !.jobs[j].executorError = TRUE]
              ELSE s
      s2 == [s1 EXCEPT !.jobs[j].jobResult = Classify(s1.jobs[j])]
      job == s2.jobs[j]
  IN IF ~job.timedOut /\ NotNilThrows(job.timeoutId)
       THEN FinalCallback(LogDbFailure(s2, j), j)
     ELSE LET s3 == IF job.timedOut THEN s2
                    ELSE [s2 EXCEPT !.jobs[j].timeoutId = "cleared"]
          IN IF NotNilThrows(job.logId) THEN FinalCallback(LogDbFailure(s3, j), j)
             ELSE [s3 EXCEPT !.jobs[j].finishJobCalls = @ + 1,
                             !.jobs[j].loggedResult = job.jobResult,
                             !.jobs[j].pc = "finishJob"]

\* Mutant of FinishJobSettled: the rejection is logged but not swallowed, and the
\* last .then is skipped.
FinishJobRejectionEscapes(s, j, rejected) ==
  IF rejected THEN [LogDbFailure(s, j) EXCEPT !.jobs[j].pc = "done"]
  ELSE FinalCallback(s, j)

\* dao.cron.finishJob has settled: a rejection goes through the second .catch,
\* and the last .then runs in both cases.
FinishJobSettled(s, j, rejected) ==
  FinalCallback(IF rejected THEN LogDbFailure(s, j) ELSE s, j)

\* dao.cron.startJob has rejected: the first .then is skipped, the first .catch
\* takes the rejection as the executorError and the middle .then runs.
StartJobRejected(s, j) == SettledCallback(s, j, TRUE)

\* The first .then of the chain, run when dao.cron.startJob resolves.  The
\* executor either returns its promise or throws before the timer is armed.
StartedCallback(s, j, executorThrows) ==
  LET s1 == [s EXCEPT !.jobs[j].logId = "assigned", !.jobs[j].invocations = @ + 1]
  IN IF executorThrows THEN SettledCallback(s1, j, TRUE)
     ELSE [SetStatus(s1, j, "running", "pending")
             EXCEPT !.jobs[j].timeoutId = "armed", !.jobs[j].pc = "executor"]

(* ------------------------------- actions ------------------------------- *)

\* The variables take the values of state s.
Becomes(s) ==
  /\ jobs' = s.jobs
  /\ runningJobs' = s.runningJobs
  /\ channels' = s.channels
  /\ nextExecutionId' = s.nextExecutionId
  /\ thrown' = s.thrown

JobIds == 0..(nextExecutionId - 1)

RECURSIVE SumOver(_, _)
SumOver(f, S) ==
  IF S = {} THEN 0
  ELSE LET x == CHOOSE y \in S : TRUE IN f[x] + SumOver(f, S \ {x})

\* Incidents so far: every one is recorded as a warning or an error of its job,
\* or as the logged failure of a dao.cron.finishJob call.
Incidents ==
  SumOver([j \in JobIds |->
             jobs[j].warnings + jobs[j].errors
               + (IF jobs[j].finishJobCalls > 0 THEN jobs[j].dbFailures ELSE 0)],
          JobIds)

Init ==
  /\ jobs = [e \in {} |-> NewJob(0, "none", NoChannel)]
  /\ runningJobs = <<>>
  /\ channels = <<>>
  /\ nextExecutionId = 0
  /\ thrown = NoError

\* A caller invokes scheduler.runTask(taskName, executor, timeout, {channel}).
\* At most maxJobs jobs are created in a run.
RunTaskCall(taskName, channelName, maxJobs) ==
  LET r == RunTask(State, taskName, channelName)
  IN /\ thrown = NoError
     /\ r.state.nextExecutionId <= maxJobs
     /\ Becomes(r.state)

\* dao.cron.startJob resolves with a log id.
StartJobResolves(j, executorThrows, maxIncidents) ==
  /\ thrown = NoError
  /\ jobs[j].pc = "startJob"
  /\ executorThrows => Incidents < maxIncidents
  /\ \E s \in {StartedCallback(State, j, executorThrows)} : Becomes(s)

\* dao.cron.startJob rejects: the executor is skipped, the rejection is the executorError.
StartJobRejects(j, maxIncidents) ==
  /\ thrown = NoError
  /\ jobs[j].pc = "startJob"
  /\ Incidents < maxIncidents
  /\ \E s \in {StartJobRejected(State, j)} : Becomes(s)

\* The executor calls job.warning(message) while it works.
ExecutorWarns(j, maxIncidents) ==
  /\ thrown = NoError
  /\ jobs[j].pc = "executor"
  /\ Incidents < maxIncidents
  /\ Becomes(JobWarning(State, j))

\* The executor calls job.error(message) while it works.
ExecutorReportsError(j, maxIncidents) ==
  /\ thrown = NoError
  /\ jobs[j].pc = "executor"
  /\ Incidents < maxIncidents
  /\ Becomes(JobError(State, j))

\* The executor's promise settles (resolved, or rejected with an error).
ExecutorSettles(j, rejected, maxIncidents) ==
  /\ thrown = NoError
  /\ jobs[j].pc = "executor"
  /\ rejected => Incidents < maxIncidents
  /\ \E s \in {SettledCallback(State, j, rejected)} : Becomes(s)

\* The timer armed by setTimeout fires before clearTimeout was called.
TimerFires(j) ==
  /\ thrown = NoError
  /\ jobs[j].timeoutId = "armed"
  /\ \E s \in {TimeoutJob(State, j)} : Becomes(s)

\* dao.cron.finishJob settles; a rejection is logged and swallowed.
FinishJobSettles(j, rejected, maxIncidents) ==
  /\ thrown = NoError
  /\ jobs[j].pc = "finishJob"
  /\ rejected => Incidents < maxIncidents
  /\ \E s \in {FinishJobSettled(State, j, rejected)} : Becomes(s)

\* The promise callbacks and timer callbacks of the jobs in flight.
JobStep(maxIncidents) ==
  \/ \E j \in JobIds, executorThrows \in BOOLEAN : StartJobResolves(j, executorThrows, maxIncidents)
  \/ \E j \in JobIds : StartJobRejects(j, maxIncidents)
  \/ \E j \in JobIds : ExecutorWarns(j, maxIncidents)
  \/ \E j \in JobIds : ExecutorReportsError(j, maxIncidents)
  \/ \E j \in JobIds, rejected \in BOOLEAN : ExecutorSettles(j, rejected, maxIncidents)
  \/ \E j \in JobIds : TimerFires(j)
  \/ \E j \in JobIds, rejected \in BOOLEAN : FinishJobSettles(j, rejected, maxIncidents)

Next ==
  \/ \E t \in TaskNames, c \in ChannelNames \cup {NoChannel} : RunTaskCall(t, c, MaxJobs)
  \/ JobStep(MaxIncidents)

Spec == Init /\ [][Next]_vars


(* ------------- runs that start with three channels in use -------------- *)

\* A scheduler on which nothing has been called yet.
FreshState ==
  [jobs |-> [e \in {} |-> NewJob(0, "none", NoChannel)], runningJobs |-> <<>>,
   channels |-> <<>>, nextExecutionId |-> 0, thrown |-> NoError]

\* The state of a fresh scheduler after the calls runTask(B, {channel: y}),
\* runTask(A, {channel: y}), runTask(C, {channel: z}), runTask(A, {channel: z})
\* and runTask(A, {channel: x}): A runs in x and waits behind B in y and behind
\* C in z.
ThreeChannelsState ==
  LET s1 == RunTask(FreshState, "B", "y").state
      s2 == RunTask(s1, "A", "y").state
      s3 == RunTask(s2, "C", "z").state
      s4 == RunTask(s3, "A", "z").state
  IN RunTask(s4, "A", "x").state

InitUnstall ==
  /\ jobs = ThreeChannelsState.jobs
  /\ runningJobs = ThreeChannelsState.runningJobs
  /\ channels = ThreeChannelsState.channels
  /\ nextExecutionId = ThreeChannelsState.nextExecutionId
  /\ thrown = ThreeChannelsState.thrown

NextUnstall ==
  \/ \E t \in UnstallTaskNames, c \in UnstallChannelNames \cup {NoChannel} :
       RunTaskCall(t, c, MaxJobsUnstall)
  \/ JobStep(MaxIncidents)

SpecUnstall == InitUnstall /\ [][NextUnstall]_vars


(* ------------------------- runs with fairness -------------------------- *)

NextLive ==
  \/ \E t \in TaskNames, c \in ChannelNames \cup {NoChannel} :
       RunTaskCall(t, c, MaxJobsLive)
  \/ JobStep(MaxIncidents)

\* dao.cron.startJob settles for job j.
StartJobSettles(j) ==
  /\ j \in JobIds
  /\ \/ \E executorThrows \in BOOLEAN : StartJobResolves(j, executorThrows, MaxIncidents)
     \/ StartJobRejects(j, MaxIncidents)

\* The event loop runs job j's timer callback once the delay has passed.
TimerCallbackRuns(j) == j \in JobIds /\ TimerFires(j)

\* dao.cron.finishJob settles for job j.
FinishJobCallbackRuns(j) ==
  j \in JobIds /\ \E rejected \in BOOLEAN : FinishJobSettles(j, rejected, MaxIncidents)

\* Armed timers fire: the event loop runs a timer callback once its delay has
\* passed.  Nothing is assumed about executors or about the persistence sink,
\* whose promises belong to the database and may stay pending.
SpecLive ==
  /\ Init
  /\ [][NextLive]_vars
  /\ \A j \in 0..(MaxJobsLive - 1) : WF_vars(TimerCallbackRuns(j))

(* ---------- runs that start with two jobs waiting in one channel ------- *)

\* The state of a fresh scheduler after the calls runTask(A, {channel: x}),
\* runTask(B, {channel: x}), runTask(C, {channel: x}) and runTask(B): A runs in
\* x, B and C wait behind it in that order, and another B runs unchanneled.
TwoWaitingState ==
  LET s1 == RunTask(FreshState, "A", "x").state
      s2 == RunTask(s1, "B", "x").state
      s3 == RunTask(s2, "C", "x").state
  IN RunTask(s3, "B", NoChannel).state

InitQueue ==
  /\ jobs = TwoWaitingState.jobs
  /\ runningJobs = TwoWaitingState.runningJobs
  /\ channels = TwoWaitingState.channels
  /\ nextExecutionId = TwoWaitingState.nextExecutionId
  /\ thrown = TwoWaitingState.thrown

NextQueue ==
  \/ \E t \in UnstallTaskNames, c \in {"x", NoChannel} :
       RunTaskCall(t, c, MaxJobsQueue)
  \/ JobStep(MaxIncidents)

SpecQueue == InitQueue /\ [][NextQueue]_vars

\* The same start, with no job created later: runTask is still called, and
\* returns jobs that run or wait.  No fairness is assumed: which jobs leave
\* the running set is a premise of the property checked.
NextDrain ==
  \/ \E t \in UnstallTaskNames, c \in {"x", NoChannel} :
       RunTaskCall(t, c, MaxJobsDrain)
  \/ JobStep(MaxIncidents)

SpecDrain == InitQueue /\ [][NextDrain]_vars

(* ------------------ runs with several incidents per job ---------------- *)

NextClassify ==
  \/ \E t \in TaskNames, c \in ChannelNames \cup {NoChannel} :
       RunTaskCall(t, c, MaxJobsClassify)
  \/ JobStep(MaxIncidentsClassify)

SpecClassify == Init /\ [][NextClassify]_vars

(* ======================================================================= *)
(*                                 Claims                                  *)
(* ======================================================================= *)

RunningSet == Range(runningJobs)

ChannelIds == 1..Len(channels)

QueuedIn(ci) == Range(channels[ci].queue)

QueuedJobs == UNION {QueuedIn(ci) : ci \in ChannelIds}

Named(S, taskName) == {j \in S : jobs[j].taskName = taskName}

\* A channel with a free slot whose queued jobs all wait for a task name.
StalledChannel(ci) == channels[ci].runningJob = Nil /\ channels[ci].queue # <<>>

\* C1: the running set never contains two distinct jobs with the same taskName.
C1_RunningSetOnePerTaskName ==
  \A i, k \in 1..Len(runningJobs) :
    i # k => /\ runningJobs[i] # runningJobs[k]
             /\ jobs[runningJobs[i]].taskName # jobs[runningJobs[k]].taskName

\* C1 witness: a job is held back in a channel with a free slot because a job of
\* its name is in the running set.
C1_Witness ==
  \E ci \in ChannelIds : \E q \in QueuedIn(ci) :
    /\ channels[ci].runningJob = Nil
    /\ Named(RunningSet, jobs[q].taskName) # {}

\* C2 as claimed: no two jobs of one taskName have status 'running' at once.
C2_Original ==
  \A j, k \in JobIds :
    (j # k /\ jobs[j].taskName = jobs[k].taskName)
      => ~(jobs[j].status = "running" /\ jobs[k].status = "running")

\* C2 amended: no two jobs of one taskName have status 'running' at once unless
\* one of them has timed out.
C2_NoTwoLiveRunning ==
  \A j, k \in JobIds :
    (j # k /\ jobs[j].taskName = jobs[k].taskName)
      => ~(/\ jobs[j].status = "running" /\ ~jobs[j].timedOut
           /\ jobs[k].status = "running" /\ ~jobs[k].timedOut)

\* C2 witness: a timed-out job whose executor is still in flight, and a second
\* job of the same name whose executor was started after the timeout.
C2_Witness ==
  \E j, k \in JobIds :
    /\ j # k /\ jobs[j].taskName = jobs[k].taskName
    /\ jobs[j].status = "running" /\ jobs[j].timedOut
    /\ jobs[k].status = "running" /\ ~jobs[k].timedOut

\* C3 as claimed: every channel has at most one job with status 'running'.
C3_Original ==
  \A c \in ChannelNames :
    Cardinality({j \in JobIds : jobs[j].channel = c /\ jobs[j].status = "running"}) <= 1

\* C3 amended: every channel has at most one job with status 'running' that has
\* not timed out.
C3_OneLiveRunningPerChannel ==
  \A c \in ChannelNames :
    Cardinality({j \in JobIds : /\ jobs[j].channel = c
                                /\ jobs[j].status = "running"
                                /\ ~jobs[j].timedOut}) <= 1

\* C3 witness: a channel with a timed-out job still executing and a live running job.
C3_Witness ==
  \E j, k \in JobIds :
    /\ j # k /\ jobs[j].channel = jobs[k].channel /\ jobs[j].channel # NoChannel
    /\ jobs[j].status = "running" /\ jobs[j].timedOut /\ jobs[j].pc = "executor"
    /\ jobs[k].status = "running" /\ ~jobs[k].timedOut

\* C4 as claimed: at most one job of a taskName is in the union of the running
\* set and the queues of all channels.
C4_Original ==
  \A t \in TaskNames : Cardinality(Named(RunningSet \cup QueuedJobs, t)) <= 1

\* C4 amended: at most one job of a taskName is in the running set and at most
\* one in the queue of any single channel, so the union of the running set and
\* all queues holds at most one per channel plus one.
C4_OnePerRunningSetAndPerQueue ==
  \A t \in TaskNames :
    /\ Cardinality(Named(RunningSet, t)) <= 1
    /\ \A ci \in ChannelIds :
         Cardinality({i \in 1..Len(channels[ci].queue) :
                        jobs[channels[ci].queue[i]].taskName = t}) <= 1
    /\ Cardinality(Named(RunningSet \cup QueuedJobs, t)) <= 1 + Len(channels)

\* C4 witness: a job of a taskName is running while another one of that name is queued.
C4_Witness ==
  \E t \in TaskNames : Named(RunningSet, t) # {} /\ Named(QueuedJobs, t) # {}

Options == ChannelNames \cup {NoChannel}

\* The queue of the channel named channelName in state s (empty if the channel
\* does not exist yet).
QueueOf(s, channelName) ==
  IF ChannelIndex(s, channelName) = 0 THEN <<>>
  ELSE s.channels[ChannelIndex(s, channelName)].queue

\* C5 as claimed: two runTask calls in immediate succession with the same name
\* and options return the same job and create exactly one job.
C5_Original ==
  \A t \in TaskNames, c \in Options :
    LET r1 == RunTask(State, t, c)
        r2 == RunTask(r1.state, t, c)
    IN /\ r2.job = r1.job
       /\ r2.state.nextExecutionId = nextExecutionId + 1

\* C5 amended: two runTask calls in immediate succession with the same name and
\* options return the same job; the second call changes nothing; together they
\* create at most one job, and exactly one iff before the first call no job of
\* that name was in the running set or queued in the requested channel; no
\* job's executor is invoked more than once.
C5_RepeatedCallIsIdempotent ==
  /\ \A t \in TaskNames, c \in Options :
       LET r1 == RunTask(State, t, c)
           r2 == RunTask(r1.state, t, c)
           existed == \/ Named(RunningSet, t) # {}
                      \/ Named(Range(QueueOf(State, c)), t) # {}
       IN /\ r2.job = r1.job
          /\ r2.state = r1.state
          /\ r1.state.thrown = NoError
          /\ r1.state.nextExecutionId = IF existed THEN nextExecutionId
                                        ELSE nextExecutionId + 1
  /\ \A j \in JobIds : jobs[j].invocations <= 1

\* C5 witness: the newest job was created by a runTask call, nothing has happened
\* to it since, and its executor has run at most once while another call with
\* the same arguments returns it.
C5_Witness ==
  \E j \in JobIds :
    /\ j = nextExecutionId - 1
    /\ jobs[j].pc \in {"created", "startJob"}
    /\ RunTask(State, jobs[j].taskName, jobs[j].channel).job = j
    /\ \E k \in JobIds : jobs[k].invocations = 1

\* C6 as claimed: no two jobs queued in one channel share a taskName, and
\* runTask(T, {channel: C}) while a job named T is queued in C returns that
\* queued job and leaves C's queue unchanged.
C6_Original ==
  \A ci \in ChannelIds :
    /\ \A i, k \in 1..Len(channels[ci].queue) :
         i # k => jobs[channels[ci].queue[i]].taskName
                    # jobs[channels[ci].queue[k]].taskName
    /\ \A q \in QueuedIn(ci) :
         LET r == RunTask(State, jobs[q].taskName, channels[ci].name)
         IN r.job = q /\ r.state.channels[ci].queue = channels[ci].queue

\* C6 amended: no two jobs queued in one channel share a taskName, and
\* runTask(T, {channel: C}) while a job named T is queued in C leaves the whole
\* state unchanged and returns that queued job, unless a job named T is in the
\* running set, and then it returns the running job.
C6_QueueOnePerTaskName ==
  \A ci \in ChannelIds :
    /\ \A i, k \in 1..Len(channels[ci].queue) :
         i # k => jobs[channels[ci].queue[i]].taskName
                    # jobs[channels[ci].queue[k]].taskName
    /\ \A q \in QueuedIn(ci) :
         LET r == RunTask(State, jobs[q].taskName, channels[ci].name)
             running == Named(RunningSet, jobs[q].taskName)
         IN /\ r.state = State
            /\ IF running = {} THEN r.job = q ELSE r.job \in running

\* C6 witness: a job is queued in a channel while no job of its name is running,
\* so that a repeated request finds it in the queue.
C6_Witness ==
  \E ci \in ChannelIds : \E q \in QueuedIn(ci) :
    /\ Named(RunningSet, jobs[q].taskName) = {}
    /\ RunTask(State, jobs[q].taskName, channels[ci].name).job = q

\* A job whose timer has fired and whose executor has not completed.
TimedOutInFlight(j) == jobs[j].timedOut /\ jobs[j].pc = "executor"

\* C7 as claimed: after a job named T timed out and while its executor has not
\* completed, runTask(T) without channel creates a new job (larger executionId)
\* that is in the running set when runTask returns.
C7_Original ==
  \A j \in JobIds :
    TimedOutInFlight(j) =>
      LET r == RunTask(State, jobs[j].taskName, NoChannel)
      IN /\ r.job = nextExecutionId
         /\ r.job > j
         /\ r.job \in Range(r.state.runningJobs)

\* C7 amended: after a job named T timed out and while its executor has not
\* completed, runTask(T) without channel returns a job other than the timed-out
\* one that is in the running set when runTask returns: a new job (larger
\* executionId) if no job named T is in the running set, else the job named T
\* that is already there.
C7_RunTaskAfterTimeout ==
  \A j \in JobIds :
    TimedOutInFlight(j) =>
      LET r == RunTask(State, jobs[j].taskName, NoChannel)
          running == Named(RunningSet, jobs[j].taskName)
      IN /\ r.job # j
         /\ r.job \in Range(r.state.runningJobs)
         /\ r.state.thrown = NoError
         /\ IF running = {}
              THEN r.job = nextExecutionId /\ r.job > j
              ELSE r.job \in running /\ r.state = State

\* C7 witness: a timed-out job whose executor is still in flight and a later
\* unchanneled job of the same name in the running set.
C7_Witness ==
  \E j, k \in JobIds :
    /\ TimedOutInFlight(j)
    /\ k > j /\ jobs[k].taskName = jobs[j].taskName /\ jobs[k].channel = NoChannel
    /\ k \in RunningSet

QueuedBehind(ci, b) ==
  LET r == RunTask(State, b, channels[ci].name)
  IN /\ r.job \in Range(QueueOf(r.state, channels[ci].name))
     /\ r.job \notin Range(r.state.runningJobs)
     /\ r.state.jobs[r.job].invocations = 0
     /\ r.state.jobs[r.job].status = "queued"

\* A job queued in a channel with a running job enters the running set only in a
\* step that removes the channel's running job from the running set.
PromotedOnlyAfterRunningJobLeft ==
  \A ci \in ChannelIds : \A q \in QueuedIn(ci) :
    (channels[ci].runningJob # Nil /\ q \in RunningSet')
      => channels[ci].runningJob \notin RunningSet'

BlockedByOtherChannel(ci, q, a) ==
  /\ q \in QueuedIn(ci)
  /\ channels[ci].runningJob = Nil
  /\ a \in Named(RunningSet, jobs[q].taskName)
  /\ jobs[a].channel # NoChannel
  /\ jobs[a].channel # channels[ci].name

\* The channels with a free slot in which a job named taskName waits.
StalledOn(taskName) ==
  {ci \in ChannelIds : /\ channels[ci].runningJob = Nil
                       /\ Named(QueuedIn(ci), taskName) # {}}

\* C8 as claimed: in the step in which the blocking job of another channel
\* leaves the running set, the blocked job is dequeued and enters the running set.
C8_Original ==
  [][\A ci \in ChannelIds : \A q \in QueuedJobs : \A a \in RunningSet :
       (BlockedByOtherChannel(ci, q, a) /\ a \notin RunningSet')
         => (q \in RunningSet' /\ q \notin QueuedJobs')]_vars

\* C8 amended: in the step in which the blocking job of another channel leaves
\* the running set, a job of that name is dequeued and enters the running set
\* without any event in its channel: the blocked job of the first channel, in
\* creation order, that has a free slot and a queued job of that name.  The
\* blocked jobs of that name in later channels stay queued.
C8_GlobalUnstall ==
  [][\A ci \in ChannelIds : \A q \in QueuedJobs : \A a \in RunningSet :
       (BlockedByOtherChannel(ci, q, a) /\ a \notin RunningSet')
         => LET first == Min(StalledOn(jobs[q].taskName))
            IN /\ thrown' = NoError
               /\ IF ci = first
                    THEN /\ q \in RunningSet' /\ q \notin QueuedJobs'
                         /\ channels'[ci].runningJob = q
                    ELSE /\ q \notin RunningSet' /\ q \in QueuedJobs'
                         /\ channels'[ci].runningJob = Nil
                         /\ channels'[first].runningJob
                              \in Named(RunningSet', jobs[q].taskName)]_vars

\* C8 witness: a job that waited in a channel now runs in it while an older job
\* of the same name, of another channel, has left the running set, and the
\* channel's first job is done.
C8_Witness ==
  \E ci \in ChannelIds : \E a \in JobIds :
    LET q == channels[ci].runningJob
    IN /\ q # Nil /\ q \in RunningSet
       /\ jobs[q].pc = "startJob"
       /\ jobs[a].taskName = jobs[q].taskName
       /\ jobs[a].channel \notin {NoChannel, channels[ci].name}
       /\ a \notin RunningSet /\ jobs[a].pc # "created"
       /\ \E u \in JobIds : /\ u < q /\ jobs[u].channel = channels[ci].name
                            /\ jobs[u].pc = "done"

\* The calls to the persistence sink made for job j settle.
SinkSettlesFor(j) ==
  WF_vars(StartJobSettles(j)) /\ WF_vars(FinishJobCallbackRuns(j))

\* No timer is armed for job j of the running set: its startJob call is still
\* pending, or its executor completed and its finishJob call is pending.
AwaitsSinkUntimed(j) ==
  /\ j \in RunningSet
  /\ jobs[j].timeoutId # "armed"
  /\ jobs[j].pc \in {"startJob", "finishJob"}

C10_RemovedIfSinkSettles ==
  \A j \in 0..(MaxJobsLive - 1) :
    SinkSettlesFor(j) => ((j \in RunningSet) ~> (j \notin RunningSet))

C10_TimedOutWitness ==
  \E j \in JobIds : TimedOutInFlight(j) /\ j \notin RunningSet

\* The dao.cron.startJob call made for job j was rejected: the chain has gone
\* past it and no log id was stored.
StartJobFailed(j) ==
  jobs[j].pc \notin {"created", "startJob"} /\ jobs[j].logId = "unset"

\* C11: if the persistence sink's startJob call fails for a job, the job still
\* runs: its executor is invoked (once), as if logging had succeeded.
C11_Original ==
  \A j \in JobIds : StartJobFailed(j) => jobs[j].invocations = 1

\* What the code does when dao.cron.startJob is rejected: the executor is never
\* invoked and no timer is armed; in the same step the rejection is recorded as
\* the job's error, the job is classified 'failure', leaves the running set and
\* goes from 'queued' to 'finished' without a finishJob call.
C11_StartJobFailureEndsJob ==
  \A j \in JobIds :
    StartJobFailed(j) =>
      /\ jobs[j].invocations = 0
      /\ jobs[j].timeoutId = "unset"
      /\ jobs[j].errors >= 1
      /\ jobs[j].pc = "done"
      /\ jobs[j].status = "finished" /\ jobs[j].result = "failure"
      /\ jobs[j].finishJobCalls = 0
      /\ j \notin RunningSet

\* C11 witness: the startJob call of some job was rejected.
C11_Witness ==
  \E j \in JobIds : StartJobFailed(j)

\* Job j holds no place in state s: it is not in the running set, in no
\* channel's runningJob slot and in no channel's queue.
Gone(s, j) ==
  /\ j \notin Range(s.runningJobs)
  /\ \A ci \in 1..Len(s.channels) :
       s.channels[ci].runningJob # j /\ j \notin Range(s.channels[ci].queue)

\* The promotion pass has nothing left to do in state s: a channel with a free
\* slot holds only queued jobs whose task name is in the running set.
NothingToPromote(s) ==
  \A ci \in 1..Len(s.channels) :
    s.channels[ci].runningJob = Nil =>
      \A q \in Range(s.channels[ci].queue) : IsRunning(s, s.jobs[q].taskName)

\* The dao.cron.finishJob call made for job j was rejected.
FinishJobFailed(j) ==
  jobs[j].pc = "done" /\ jobs[j].finishJobCalls = 1 /\ jobs[j].dbFailures = 1

\* C12: if the persistence sink's finishJob call fails for a job that has not
\* timed out, the failure is swallowed: no error escapes, the job is removed
\* from the running set and from its channel's slot, the promotion pass over all
\* channels has run and the job's status is 'finished' with the result computed
\* before the call; the scheduler is in the state it would be in had the call
\* succeeded, but for the logged failure.
C12_FinishJobFailureSwallowed ==
  /\ \A j \in JobIds :
       (jobs[j].pc = "finishJob" /\ ~jobs[j].timedOut) =>
         LET r == FinishJobSettled(State, j, TRUE)
         IN /\ r.thrown = NoError
            /\ j \in RunningSet /\ Gone(r, j)
            /\ NothingToPromote(r)
            /\ r.jobs[j].status = "finished"
            /\ r.jobs[j].result = jobs[j].jobResult
            /\ r = LogDbFailure(FinishJobSettled(State, j, FALSE), j)
  /\ \A j \in JobIds :
       (FinishJobFailed(j) /\ ~jobs[j].timedOut) =>
         Gone(State, j) /\ jobs[j].status = "finished"

\* C12 witness: the finishJob call of a job that did not time out was rejected,
\* and the next job of its channel has been promoted to the running set.
C12_Witness ==
  \E j, k \in JobIds :
    /\ FinishJobFailed(j) /\ ~jobs[j].timedOut
    /\ jobs[j].channel # NoChannel /\ jobs[k].channel = jobs[j].channel
    /\ k \in RunningSet

\* From state s to state r nothing of a job other than j has changed but by
\* promotion: status, result, errors and warnings are the same, and every queue
\* is the queue it was without the jobs that entered the running set.
OthersUntouched(s, r, j) ==
  LET promoted == Range(r.runningJobs) \ Range(s.runningJobs)
  IN /\ DOMAIN r.jobs = DOMAIN s.jobs
     /\ \A k \in DOMAIN s.jobs \ {j} :
          /\ r.jobs[k].status = s.jobs[k].status
          /\ r.jobs[k].result = s.jobs[k].result
          /\ r.jobs[k].errors = s.jobs[k].errors
          /\ r.jobs[k].warnings = s.jobs[k].warnings
          /\ r.jobs[k].timedOut = s.jobs[k].timedOut
     /\ Len(r.channels) = Len(s.channels)
     /\ \A ci \in 1..Len(s.channels) :
          r.channels[ci].queue
            = SelectSeq(s.channels[ci].queue, LAMBDA q : q \notin promoted)
     /\ Range(r.runningJobs) \ (promoted \cup {j}) = Range(s.runningJobs) \ {j}

ClaimedResult(job) ==
  CHOOSE r \in {"failure", "partial", "success"} :
    /\ r = "failure" <=> job.errors > 0
    /\ r = "partial" <=> (job.errors = 0 /\ job.warnings > 0)
    /\ r = "success" <=> (job.errors = 0 /\ job.warnings = 0)

\* C14: the result computed at finish is 'failure' iff the job's error list is
\* non-empty, 'partial' iff the error list is empty and the warning list is not,
\* 'success' iff both are empty; it is the result passed to finishJob and the
\* result of the finished job.
C14_ResultClassification ==
  /\ \A j \in JobIds :
       jobs[j].pc = "executor" =>
         \A rejected \in BOOLEAN :
           LET r == SettledCallback(State, j, rejected).jobs[j]
           IN r.jobResult = ClaimedResult(r)
  /\ \A j \in JobIds :
       /\ jobs[j].jobResult # "none" => jobs[j].jobResult = ClaimedResult(jobs[j])
       /\ jobs[j].finishJobCalls > 0 => jobs[j].loggedResult = jobs[j].jobResult
       /\ jobs[j].status = "finished" => jobs[j].result = jobs[j].jobResult

\* C14 witness: a job with a warning and an error has finished as 'failure', and
\* a job with a warning and no error as 'partial'.
C14_Witness ==
  \E j, k \in JobIds :
    /\ jobs[j].status = "finished" /\ jobs[j].warnings = 1 /\ jobs[j].errors = 1
    /\ jobs[j].result = "failure"
    /\ jobs[k].status = "finished" /\ jobs[k].warnings = 1 /\ jobs[k].errors = 0
    /\ jobs[k].result = "partial"

\* C15: when a running job's timeout fires, the job is removed from the running
\* set and from its channel's runningJob slot, the promotion pass over all
\* channels has run and timedOut is true, while the job's status stays 'running'
\* and its executor goes on; the status stays 'running' until the executor has
\* completed, and is 'finished' once the completion has been handled (by the
\* last callback of the chain, after the finishJob call made on completion).
C15_TimeoutFreesSlotKeepsStatus ==
  /\ \A j \in JobIds :
       jobs[j].timeoutId = "armed" =>
         LET r == TimeoutJob(State, j)
         IN /\ r.thrown = NoError
            /\ j \in RunningSet /\ Gone(r, j)
            /\ NothingToPromote(r)
            /\ r.jobs[j].timedOut
            /\ jobs[j].status = "running" /\ r.jobs[j].status = "running"
            /\ r.jobs[j].pc = "executor"
            /\ OthersUntouched(State, r, j)
  /\ \A j \in JobIds :
       jobs[j].timedOut =>
         /\ Gone(State, j)
         /\ jobs[j].pc \in {"executor", "finishJob", "done"}
         /\ jobs[j].status = IF jobs[j].pc = "done" THEN "finished" ELSE "running"
         /\ jobs[j].pc = "executor" =>
              \A rejected \in BOOLEAN :
                SettledCallback(State, j, rejected).jobs[j].pc = "finishJob"
         /\ jobs[j].pc = "finishJob" =>
              \A rejected \in BOOLEAN :
                FinishJobSettled(State, j, rejected).jobs[j].status = "finished"

\* The status of a timed-out job whose executor has completed becomes 'finished'
\* if the finishJob call made for it settles.
C15_FinishedIfSinkSettles ==
  \A j \in 0..(MaxJobsLive - 1) :
    WF_vars(FinishJobCallbackRuns(j))
      => ((j \in JobIds /\ jobs[j].timedOut /\ jobs[j].pc = "finishJob")
            ~> (j \in JobIds /\ jobs[j].status = "finished"))

\* C15 witness: a job timed out and has status 'running' while its executor is
\* in flight, a later job of its channel has taken the slot, and another
\* timed-out job has status 'finished' after the late completion of its executor.
C15_Witness ==
  \E j, k, d \in JobIds :
    /\ TimedOutInFlight(j) /\ jobs[j].status = "running" /\ j \notin RunningSet
    /\ jobs[j].channel # NoChannel /\ jobs[k].channel = jobs[j].channel
    /\ k > j /\ k \in RunningSet
    /\ jobs[d].timedOut /\ jobs[d].status = "finished"

\* State r is state s but for job j's status and result, its errors and its
\* log bookkeeping.
OnlyOwnBookkeeping(s, r, j) ==
  s = [r EXCEPT !.jobs[j] = [@ EXCEPT !.status = s.jobs[j].status,
                                      !.result = s.jobs[j].result,
                                      !.errors = s.jobs[j].errors,
                                      !.executorError = s.jobs[j].executorError,
                                      !.jobResult = s.jobs[j].jobResult,
                                      !.finishJobCalls = s.jobs[j].finishJobCalls,
                                      !.loggedResult = s.jobs[j].loggedResult,
                                      !.dbFailures = s.jobs[j].dbFailures,
                                      !.pc = s.jobs[j].pc]]

\* C16: the late completion of a job that already timed out (the settlement of
\* its executor, then of its finishJob call) leaves the running set, every
\* channel's runningJob slot and queue and every other job unchanged, and raises
\* no error; it only changes that job's own status, errors and log bookkeeping.
C16_LateCompletionChangesOnlyJob ==
  \A j \in JobIds :
    jobs[j].timedOut =>
      /\ jobs[j].pc = "executor" =>
           \A rejected \in BOOLEAN :
             LET r == SettledCallback(State, j, rejected)
             IN OnlyOwnBookkeeping(State, r, j) /\ r.jobs[j].pc = "finishJob"
      /\ jobs[j].pc = "finishJob" =>
           \A rejected \in BOOLEAN :
             LET r == FinishJobSettled(State, j, rejected)
             IN OnlyOwnBookkeeping(State, r, j) /\ r.jobs[j].status = "finished"

\* C16 witness: a timed-out job has completed late while a newer job of the same
\* name and the same channel is in the running set and holds the channel's slot.
C16_Witness ==
  \E j, k \in JobIds : \E ci \in ChannelIds :
    /\ jobs[j].timedOut /\ jobs[j].pc = "done" /\ jobs[j].finishJobCalls = 1
    /\ k > j /\ jobs[k].taskName = jobs[j].taskName
    /\ jobs[k].channel = jobs[j].channel /\ channels[ci].name = jobs[k].channel
    /\ channels[ci].runningJob = k /\ k \in RunningSet

\* The scheduler's fatal errors.
FatalErrors ==
  {"Job already executed", "Task already running", "Orphaned job detected",
   "Cannot remove job from channel"}

\* C17: the scheduler's fatal errors ('Job already executed', 'Task ... already
\* running', 'Orphaned job detected', 'Cannot remove job ... from channel') are
\* unreachable: none has been thrown, and none is thrown by any runTask call,
\* by any settlement of startJob, of an executor or of finishJob, or by any
\* timer that can come next.
C17_FatalErrorsUnreachable ==
  /\ thrown \notin FatalErrors
  /\ \A t \in TaskNames, c \in Options :
       RunTask(State, t, c).state.thrown \notin FatalErrors
  /\ \A j \in JobIds :
       /\ jobs[j].pc = "startJob" =>
            /\ StartJobRejected(State, j).thrown \notin FatalErrors
            /\ \A executorThrows \in BOOLEAN :
                 StartedCallback(State, j, executorThrows).thrown \notin FatalErrors
       /\ jobs[j].pc = "executor" =>
            \A rejected \in BOOLEAN :
              SettledCallback(State, j, rejected).thrown \notin FatalErrors
       /\ jobs[j].timeoutId = "armed" =>
            TimeoutJob(State, j).thrown \notin FatalErrors
       /\ jobs[j].pc = "finishJob" =>
            \A rejected \in BOOLEAN :
              FinishJobSettled(State, j, rejected).thrown \notin FatalErrors

\* C17 witness: every guard has been passed: a job timed out and completed late,
\* a job was promoted from a queue and has finished, and a job has gone through
\* a failed startJob call.
C17_Witness ==
  \E j, k, f \in JobIds :
    /\ jobs[j].timedOut /\ jobs[j].pc = "done"
    /\ jobs[k].channel # NoChannel /\ jobs[k].pc = "done" /\ ~jobs[k].timedOut
    /\ StartJobFailed(f)
    /\ thrown = NoError

\* C18 as claimed: getRunningJobs() returns exactly the jobs whose status is
\* 'running'.
C18_Original ==
  Range(GetRunningJobs(State)) = {j \in JobIds : jobs[j].status = "running"}

\* C18 amended: getRunningJobs() returns the running set, that is the jobs whose
\* execution has begun and that have neither finished nor timed out.  A job in
\* the list has status 'queued' while its startJob call is pending and 'running'
\* afterwards; a job with status 'running' is in the list unless it timed out.
C18_RunningJobsAreRunningSet ==
  LET list == Range(GetRunningJobs(State))
  IN /\ list = {j \in JobIds : /\ jobs[j].pc \in {"startJob", "executor", "finishJob"}
                                /\ ~jobs[j].timedOut}
     /\ \A j \in list :
          jobs[j].status = IF jobs[j].pc = "startJob" THEN "queued" ELSE "running"
     /\ \A j \in JobIds :
          jobs[j].status = "running" => (j \in list \/ jobs[j].timedOut)
     /\ \A i, k \in 1..Len(GetRunningJobs(State)) :
          i # k => GetRunningJobs(State)[i] # GetRunningJobs(State)[k]

\* C18 witness: the list holds a job with status 'queued' and a job with status
\* 'running', and a timed-out job with status 'running' is not in it.
C18_Witness ==
  \E j, k, d \in JobIds :
    /\ j \in Range(GetRunningJobs(State)) /\ jobs[j].status = "queued"
    /\ k \in Range(GetRunningJobs(State)) /\ jobs[k].status = "running"
    /\ d \notin Range(GetRunningJobs(State)) /\ jobs[d].status = "running"

\* Job j's status changes from one value to the other in the step.
StatusStep(j, from, to) == jobs[j].status = from /\ jobs'[j].status = to

\* C19: a job's status only ever changes by the transitions queued -> running
\* and running -> finished, so that 'finished' is terminal and every job that
\* reaches 'finished' was 'running' before.
C19_Original ==
  [][\A j \in JobIds :
       jobs'[j].status # jobs[j].status =>
         \/ StatusStep(j, "queued", "running")
         \/ StatusStep(j, "running", "finished")]_vars

\* What the code does: a job starts 'queued' and its status changes by
\* queued -> running, running -> finished, and queued -> finished in the step
\* in which its startJob call is rejected or its executor throws before
\* returning a promise; no status is re-entered and 'finished' is terminal.
C19_StatusTransitions ==
  [][/\ \A j \in JobIds :
          jobs'[j].status # jobs[j].status =>
            \/ StatusStep(j, "queued", "running")
            \/ StatusStep(j, "running", "finished")
            \/ /\ StatusStep(j, "queued", "finished")
               /\ jobs[j].pc = "startJob" /\ jobs'[j].pc = "done"
               /\ jobs'[j].executorError /\ jobs'[j].timeoutId = "unset"
     /\ \A j \in DOMAIN jobs' \ JobIds : jobs'[j].status = "queued"]_vars

\* C19 witness: a job is 'finished' that never was 'running': no timer was ever
\* armed for it.
C19_Witness ==
  \E j \in JobIds : jobs[j].status = "finished" /\ jobs[j].timeoutId = "unset"

\* C20: for every channel C and job j, C.runningJob == j if and only if j is in
\* the running set and j.channel == C; hence a job occupies at most one
\* channel's runningJob slot, an unchanneled job occupies none, and at most one
\* job of a channel is in the running set.
C20_SlotIffRunningInChannel ==
  /\ \A ci \in ChannelIds : \A j \in JobIds :
       channels[ci].runningJob = j
         <=> (j \in RunningSet /\ jobs[j].channel = channels[ci].name)
  /\ \A ci \in ChannelIds : channels[ci].runningJob \in JobIds \cup {Nil}
  /\ \A ci, cj \in ChannelIds : ci # cj => channels[ci].name # channels[cj].name
  /\ \A j \in JobIds :
       Cardinality({ci \in ChannelIds : channels[ci].runningJob = j})
         <= (IF jobs[j].channel = NoChannel THEN 0 ELSE 1)
  /\ \A ci \in ChannelIds :
       Cardinality({j \in RunningSet : jobs[j].channel = channels[ci].name}) <= 1

\* C20 witness: a channel's slot was freed by a finished job and is held by a
\* later job of the channel, while an unchanneled job is in the running set.
C20_Witness ==
  \E ci \in ChannelIds : \E j, k, u \in JobIds :
    /\ channels[ci].runningJob = k /\ k \in RunningSet
    /\ j < k /\ jobs[j].channel = channels[ci].name /\ jobs[j].pc = "done"
    /\ u \in RunningSet /\ jobs[u].channel = NoChannel

\* C21: for every executed job, finishJob is called exactly once, after the
\* executor's work has concluded and with the job's classification, also when
\* the job timed out, when startJob failed or when the executor threw.
C21_Original ==
  \A j \in JobIds :
    /\ jobs[j].finishJobCalls <= 1
    /\ jobs[j].pc = "done" =>
         jobs[j].finishJobCalls = 1 /\ jobs[j].loggedResult = jobs[j].jobResult

\* What the code does: finishJob is called at most once per job, after the
\* executor has concluded and with the job's classification, also for a job that
\* timed out; it is not called at all for a job for which no timer was armed,
\* that is when startJob was rejected or the executor threw before returning
\* its promise.
C21_FinishJobCalls ==
  \A j \in JobIds :
    /\ jobs[j].finishJobCalls <= 1
    /\ jobs[j].finishJobCalls = 1 =>
         /\ jobs[j].pc \in {"finishJob", "done"}
         /\ jobs[j].invocations = 1
         /\ jobs[j].loggedResult = jobs[j].jobResult
         /\ jobs[j].loggedResult = Classify(jobs[j])
    /\ jobs[j].pc = "done" =>
         jobs[j].finishJobCalls = IF jobs[j].timeoutId = "unset" THEN 0 ELSE 1
    /\ jobs[j].timeoutId = "unset" =>
         (jobs[j].pc = "done" => StartJobFailed(j) \/ jobs[j].executorError)

\* C21 witness: a job has finished and finishJob was never called for it.
C21_Witness ==
  \E j \in JobIds : jobs[j].pc = "done" /\ jobs[j].finishJobCalls = 0

\* C22: executionIds are assigned in strictly increasing order of job creation
\* and are never reused: the n-th job created has the n-th value of the counter,
\* so that any two distinct jobs have distinct executionIds; a runTask call that
\* returns an existing job consumes no executionId, and one that creates a job
\* consumes exactly one, greater than every executionId in use.
C22_ExecutionIdsIncreaseNeverReused ==
  /\ DOMAIN jobs = 0..(nextExecutionId - 1)
  /\ \A j \in DOMAIN jobs : jobs[j].executionId = j
  /\ \A j, k \in DOMAIN jobs :
       /\ j # k => jobs[j].executionId # jobs[k].executionId
       /\ j < k => jobs[j].executionId < jobs[k].executionId
  /\ \A t \in TaskNames, c \in Options :
       LET r == RunTask(State, t, c)
       IN /\ \A j \in DOMAIN jobs :
               /\ j \in DOMAIN r.state.jobs
               /\ r.state.jobs[j].executionId = jobs[j].executionId
          /\ IF r.job \in DOMAIN jobs
               THEN /\ r.state.nextExecutionId = nextExecutionId
                    /\ DOMAIN r.state.jobs = DOMAIN jobs
               ELSE /\ r.state.nextExecutionId = nextExecutionId + 1
                    /\ DOMAIN r.state.jobs = DOMAIN jobs \cup {r.job}
                    /\ r.state.jobs[r.job].executionId = nextExecutionId
                    /\ \A j \in DOMAIN jobs :
                         jobs[j].executionId < r.state.jobs[r.job].executionId

\* C22 witness: three jobs were created, between calls that returned existing
\* jobs or not, a job has finished, and a runTask call now would return an
\* existing job.
C22_Witness ==
  /\ Cardinality(DOMAIN jobs) = 3
  /\ \E j \in DOMAIN jobs : jobs[j].pc = "done"
  /\ \E t \in TaskNames, c \in Options : RunTask(State, t, c).job \in DOMAIN jobs

\* The channel named channelName has a running job in state s.
ChannelBusy(s, channelName) ==
  /\ ChannelIndex(s, channelName) # 0
  /\ s.channels[ChannelIndex(s, channelName)].runningJob # Nil

\* C23: when runTask creates a new job, that job is in the running set when
\* runTask returns if it is unchanneled or if its channel has no running job at
\* that moment, whatever is running or queued in other channels and whatever
\* waits in its own channel's queue; otherwise it is the last job of its
\* channel's queue, and nothing else has changed.
C23_NewJobRunsUnlessChannelBusy ==
  \A t \in TaskNames, c \in Options :
    LET r == RunTask(State, t, c)
    IN r.job \notin DOMAIN jobs =>
         /\ r.state.thrown = NoError
         /\ IF c = NoChannel \/ ~ChannelBusy(State, c)
              THEN /\ r.job \in Range(r.state.runningJobs)
                   /\ r.state.jobs[r.job].pc = "startJob"
                   /\ r.job \notin Range(QueueOf(r.state, c))
                   /\ QueueOf(r.state, c) = QueueOf(State, c)
              ELSE /\ r.job \notin Range(r.state.runningJobs)
                   /\ r.state.jobs[r.job].status = "queued"
                   /\ QueueOf(r.state, c) = Append(QueueOf(State, c), r.job)
                   /\ r.state.runningJobs = runningJobs

\* C23 witness: the newest job was created in a channel and is in the running
\* set, while another channel has a running job and a job of the same name
\* as the new one in its queue.
C23_Witness ==
  \E ci, cj \in ChannelIds : \E k \in DOMAIN jobs :
    /\ k = Cardinality(DOMAIN jobs) - 1
    /\ channels[ci].runningJob = k /\ jobs[k].pc = "startJob"
    /\ cj # ci /\ channels[cj].runningJob # Nil
    /\ Named(QueuedIn(cj), jobs[k].taskName) # {}

\* A state on which C23 is evaluated for a channel with a free slot and a
\* waiting job: a runTask call in that channel would create a job, which runs
\* ahead of the waiting one.
C23_StalledChannelCase ==
  \E ci \in ChannelIds : \E t \in TaskNames :
    LET r == RunTask(State, t, channels[ci].name)
    IN /\ channels[ci].runningJob = Nil /\ channels[ci].queue # <<>>
       /\ r.job \notin DOMAIN jobs
       /\ r.state.channels[ci].runningJob = r.job
       /\ r.state.channels[ci].queue = channels[ci].queue


(* ---------------------------------------------------------------------- *)
(* C24                                                                    *)
(* ---------------------------------------------------------------------- *)

\* a stands before b in the sequence.
Before(seq, a, b) ==
  \E m, n \in 1..Len(seq) : m < n /\ seq[m] = a /\ seq[n] = b

\* The sequence after is the sequence before without the elements of removed,
\* the others in their order.
SameOrderWithout(before, after, removed) ==
  /\ Range(after) = Range(before) \ removed
  /\ Len(after) = Cardinality(Range(after))
  /\ \A a, b \in Range(after) : Before(after, a, b) <=> Before(before, a, b)

\* One call of _tryRunNextJobInChannel on state s: it promotes nothing and
\* changes nothing, or promotes one job whose predecessors in the queue all
\* have running names, and leaves the others in their order.
PromotionInOrder(s, ci) ==
  LET r == TryRunNextJobInChannel(s, ci)
      queue == s.channels[ci].queue
  IN /\ r.thrown = NoError
     /\ \/ r = s
        \/ \E i \in 1..Len(queue) :
             /\ s.channels[ci].runningJob = Nil
             /\ r.channels[ci].runningJob = queue[i]
             /\ queue[i] \in Range(r.runningJobs) \ Range(s.runningJobs)
             /\ \A k \in 1..(i - 1) : IsRunning(s, s.jobs[queue[k]].taskName)
             /\ SameOrderWithout(queue, r.channels[ci].queue, {queue[i]})
             /\ \A cj \in 1..Len(s.channels) :
                  cj # ci => r.channels[cj] = s.channels[cj]

\* Every call of the pass _tryToUnstallChannels makes from channel ci on.
RECURSIVE PassInOrder(_, _)
PassInOrder(s, ci) ==
  IF ci > Len(s.channels) THEN TRUE
  ELSE /\ PromotionInOrder(s, ci)
       /\ PassInOrder(TryRunNextJobInChannel(s, ci), ci + 1)

\* The state in which _unregisterJob(j) starts its pass over the channels.
AfterRemoval(s, j) ==
  RemoveJobFromChannel(
    [s EXCEPT !.runningJobs = Splice(@, IndexOf(s.runningJobs, j))],
    s.jobs[j].channel, j)

\* One step of the scheduler, seen from a channel's queue: the jobs that leave
\* it are promoted, each past jobs whose names run; a job created by the step
\* may join at the end; the rest keeps its order.
QueueStepInOrder(ci) ==
  LET queue == channels[ci].queue
      queue2 == channels'[ci].queue
      left == Range(queue) \ Range(queue2)
      joined == Range(queue2) \ Range(queue)
  IN /\ SameOrderWithout(queue, SubSeq(queue2, 1, Len(queue2) - Cardinality(joined)), left)
     /\ joined \subseteq DOMAIN jobs' \ DOMAIN jobs
     /\ Cardinality(joined) <= 1
     /\ \A q \in joined : queue2[Len(queue2)] = q
     /\ Cardinality(left) <= 1
     /\ \A q \in left :
          /\ channels'[ci].runningJob = q
          /\ q \in Range(runningJobs') \ Range(runningJobs)
          /\ \A k \in 1..(IndexOf(queue, q) - 1) :
               \E r \in Range(runningJobs') :
                 jobs'[r].taskName = jobs[queue[k]].taskName
     /\ \A q \in DOMAIN jobs' \ DOMAIN jobs :
          channels'[ci].runningJob = q =>
            \A k \in 1..Len(queue) : IsRunning(State, jobs[queue[k]].taskName)

\* C24: a channel promotes the first queued job whose name is not running:
\* every job ahead of the promoted one has a running name at that moment, in
\* each call the pass of _unregisterJob makes and in the call runTask makes for
\* a new job; the skipped jobs keep their order, and no step of the scheduler
\* reorders the jobs that stay queued.
C24_PromotionKeepsQueueOrder ==
  /\ [](\A j \in RunningSet :
          /\ AfterRemoval(State, j).thrown = NoError
          /\ PassInOrder(AfterRemoval(State, j), 1)
          /\ UnstallFrom(AfterRemoval(State, j), 1) = UnregisterJob(State, j))
  /\ [][\A ci \in ChannelIds : QueueStepInOrder(ci)]_vars

\* A was unregistered from channel x, the head of the queue (B, job 1) was
\* skipped because another B (job 3) runs, and C (job 2) was promoted past it.
C24_Witness ==
  /\ nextExecutionId >= 4
  /\ \E ci \in ChannelIds :
       /\ channels[ci].runningJob = 2
       /\ channels[ci].queue = <<1>>
  /\ 0 \notin RunningSet
  /\ 3 \in RunningSet
  /\ jobs[1].taskName = jobs[3].taskName
  /\ jobs[2].pc = "startJob"

(* ---------------------------------------------------------------------- *)
(* C25                                                                    *)
(* ---------------------------------------------------------------------- *)

\* C25: while a job named T is in the running set, runTask(T, options) returns
\* that job for every options.channel (none, the job's own, another, one not
\* seen before) and changes nothing: not the running set, no queue, no slot,
\* not the executionId counter.
C25_RunningJobReturnedUnchanged ==
  \A t \in TaskNames, c \in Options :
    Named(RunningSet, t) # {} =>
      LET r == RunTask(State, t, c)
      IN /\ r.job \in Named(RunningSet, t)
         /\ r.state.runningJobs = runningJobs
         /\ r.state.channels = channels
         /\ r.state.nextExecutionId = nextExecutionId
         /\ r.state.jobs = jobs
         /\ r.state.thrown = NoError

\* A job named T runs in one channel while another job named T waits in a
\* second channel: runTask(T) for the second channel has both to choose from.
C25_Witness ==
  \E j \in RunningSet, ci \in ChannelIds :
    /\ jobs[j].channel \notin {NoChannel, channels[ci].name}
    /\ \E q \in QueuedIn(ci) : jobs[q].taskName = jobs[j].taskName

(* ---------------------------------------------------------------------- *)
(* C26                                                                    *)
(* ---------------------------------------------------------------------- *)

\* Job q, named taskName, waits in a channel and no job of that name runs.
QueuedNotRunning(q, taskName) ==
  /\ q \in QueuedJobs
  /\ jobs[q].taskName = taskName
  /\ Named(RunningSet, taskName) = {}

\* C26: if a job named T waits in channel A and no job named T runs, runTask(T)
\* with no channel or with another channel B does not return the waiting job
\* but creates a second job named T; the first still waits in A, the second
\* runs or waits elsewhere.
C26_QueuedElsewhereIsDuplicated ==
  \A q \in JobIds, c \in Options :
    (QueuedNotRunning(q, jobs[q].taskName) /\ c # jobs[q].channel) =>
      LET r == RunTask(State, jobs[q].taskName, c)
      IN /\ r.job # q
         /\ r.job \notin DOMAIN jobs
         /\ r.state.thrown = NoError
         /\ r.state.jobs[r.job].taskName = jobs[q].taskName
         /\ r.state.jobs[r.job].channel = c
         /\ q \in Range(QueueOf(r.state, jobs[q].channel))
         /\ \/ r.job \in Range(r.state.runningJobs)
            \/ r.job \in Range(QueueOf(r.state, c))

\* C26, second half: both jobs of the pair are executed, so the task runs
\* twice: jobs q and k have the same name, k was created after q for another
\* channel or none, k has run to its end without a timeout and q runs now
\* (so q waited in its channel while k ran), and the executor of each was
\* invoked.
C26_Witness ==
  \E q, k \in JobIds :
    /\ q < k
    /\ jobs[q].taskName = jobs[k].taskName
    /\ jobs[q].channel \notin {NoChannel, jobs[k].channel}
    /\ jobs[k].invocations = 1 /\ jobs[k].pc = "done" /\ ~jobs[k].timedOut
    /\ jobs[q].invocations = 1 /\ jobs[q].pc = "executor" /\ ~jobs[q].timedOut

(* ---------------------------------------------------------------------- *)
(* C27                                                                    *)
(* ---------------------------------------------------------------------- *)

\* The job has finished or has timed out.
Terminated(j) == jobs[j].status = "finished" \/ jobs[j].timedOut

\* The jobs runTask(taskName, {channel: channelName}) can return without
\* creating one: those of that name in the running set or in that channel's
\* queue.
Reusable(taskName, channelName) ==
  Named(RunningSet \cup Range(QueueOf(State, channelName)), taskName)

\* C27 as stated: once a job named T has finished, every runTask(T) creates a
\* new Job.
C27_Original ==
  \A j \in JobIds, c \in Options :
    jobs[j].status = "finished" =>
      RunTask(State, jobs[j].taskName, c).job \notin DOMAIN jobs

\* C27: once a job named T has finished, runTask(T) creates a new Job with a
\* new executionId unless another job named T runs or waits in the requested
\* channel, which it then returns; a job that has finished or timed out is
\* never returned by runTask, is in no queue and not in the running set, before
\* and after the call, and no job's executor is invoked twice.
C27_TerminatedJobNeverReturned ==
  /\ \A j \in JobIds : Terminated(j) => j \notin RunningSet \cup QueuedJobs
  /\ \A j \in JobIds : jobs[j].invocations <= 1
  /\ \A j \in JobIds, c \in Options :
       Terminated(j) =>
         LET r == RunTask(State, jobs[j].taskName, c)
         IN /\ r.job # j
            /\ r.state.thrown = NoError
            /\ j \notin Range(r.state.runningJobs)
            /\ \A ci \in 1..Len(r.state.channels) :
                 /\ j \notin Range(r.state.channels[ci].queue)
                 /\ r.state.channels[ci].runningJob # j
            /\ r.state.jobs[j] = jobs[j]
            /\ IF Reusable(jobs[j].taskName, c) = {}
                 THEN /\ r.job \notin DOMAIN jobs
                      /\ r.state.jobs[r.job].executionId = nextExecutionId
                      /\ \A k \in JobIds :
                           jobs[k].executionId < r.state.jobs[r.job].executionId
                 ELSE /\ r.job \in Reusable(jobs[j].taskName, c)
                      /\ r.state.jobs = jobs

\* A job named T has finished and a later job named T is in the running set:
\* runTask(T) returns the later one.
C27_Witness ==
  \E j, k \in JobIds :
    /\ jobs[j].status = "finished"
    /\ j < k
    /\ jobs[k].taskName = jobs[j].taskName
    /\ k \in RunningSet
    /\ RunTask(State, jobs[j].taskName, NoChannel).job = k

\* A job named T has finished and no other job named T exists: runTask(T)
\* creates one.
C27_FreshJobCase ==
  \E j \in JobIds :
    /\ jobs[j].status = "finished"
    /\ Named(JobIds, jobs[j].taskName) = {j}
    /\ nextExecutionId < MaxJobs

(* ---------------------------------------------------------------------- *)
(* C28                                                                    *)
(* ---------------------------------------------------------------------- *)

\* C28: no lost wake-up: after every step of the scheduler (runTask, a job's
\* finish, a job's timeout) each channel without a running job has only jobs
\* in its queue whose names are in the running set, so no job waits that could
\* run; when the running set is empty every queue is empty.
C28_NoLostWakeUp ==
  /\ thrown = NoError
  /\ \A ci \in ChannelIds :
       channels[ci].runningJob = Nil =>
         \A q \in QueuedIn(ci) : Named(RunningSet, jobs[q].taskName) # {}
  /\ RunningSet = {} => \A ci \in ChannelIds : channels[ci].queue = <<>>

\* A channel whose job has left (finished or timed out) has no running job
\* and a job waiting, behind a job of the same name that runs elsewhere.
C28_Witness ==
  \E ci \in ChannelIds :
    /\ channels[ci].runningJob = Nil
    /\ channels[ci].queue # <<>>
    /\ \E j \in JobIds :
         /\ jobs[j].channel = channels[ci].name
         /\ jobs[j].pc = "done" \/ jobs[j].timedOut

\* Every job has left the running set again and the queues are empty.
C28_AllDone ==
  /\ RunningSet = {}
  /\ \A j \in JobIds : jobs[j].invocations = 1
  /\ nextExecutionId >= 4

(* ---------------------------------------------------------------------- *)
(* C29                                                                    *)
(* ---------------------------------------------------------------------- *)

\* Every job of the running set eventually finishes or times out: a job leaves
\* the running set by one of the two and in no other way, and a job that has
\* finished or timed out is not in the running set (C27), so this says that no
\* job stays in the running set forever.
RunningJobsTerminate ==
  \A j \in 0..(MaxJobsDrain - 1) : []<>(j \notin RunningSet)

\* A job that has left the running set has finished or timed out.
LeftMeansTerminated ==
  \A j \in JobIds :
    (jobs[j].pc # "created" /\ j \notin RunningSet) => Terminated(j)

\* C29: in a run where runTask creates no further job and every job of the
\* running set eventually finishes or times out, every job that waits in a
\* channel's queue is eventually promoted to the running set.
C29_QueuesDrain ==
  RunningJobsTerminate =>
    \A q \in 0..(MaxJobsDrain - 1) : (q \in QueuedJobs) ~> (q \in RunningSet)

\* The job that waited last has been promoted: every other job has finished
\* or timed out, no queue holds a job, and the last job runs.
C29_Witness ==
  \E q \in JobIds :
    /\ jobs[q].channel # NoChannel
    /\ RunningSet = {q}
    /\ QueuedJobs = {}
    /\ jobs[q].pc = "startJob"
    /\ \A j \in JobIds \ {q} : Terminated(j)
    /\ \E j \in JobIds \ {q} : jobs[j].timedOut

(* ---------------------------------------------------------------------- *)
(* C30                                                                    *)
(* ---------------------------------------------------------------------- *)

\* The result of a job that recorded no error.
ResultWithoutErrors(job) == IF job.warnings > 0 THEN "partial" ELSE "success"

\* C30: the timeout has no part in the classification: the timer callback adds
\* nothing to a job's errors or warnings; when the executor of a timed-out job
\* that recorded no error completes without throwing, the job is classified
\* 'success', or 'partial' if it recorded warnings, and finishJob is called
\* with that result; a timed-out job that has finished without errors carries
\* that result.
C30_TimeoutNotInClassification ==
  /\ \A j \in JobIds :
       jobs[j].timeoutId = "armed" =>
         LET r == TimeoutJob(State, j).jobs[j]
         IN /\ r.timedOut
            /\ r.errors = jobs[j].errors
            /\ r.warnings = jobs[j].warnings
            /\ r.jobResult = jobs[j].jobResult
  /\ \A j \in JobIds :
       (jobs[j].timedOut /\ jobs[j].pc = "executor" /\ jobs[j].errors = 0) =>
         LET r == SettledCallback(State, j, FALSE).jobs[j]
         IN /\ r.errors = 0
            /\ r.jobResult = ResultWithoutErrors(jobs[j])
            /\ r.finishJobCalls = 1
            /\ r.loggedResult = r.jobResult
  /\ \A j \in JobIds :
       (jobs[j].timedOut /\ jobs[j].errors = 0) =>
         /\ jobs[j].finishJobCalls > 0 =>
              jobs[j].loggedResult = ResultWithoutErrors(jobs[j])
         /\ jobs[j].status = "finished" =>
              jobs[j].result = ResultWithoutErrors(jobs[j])

\* A job that timed out and one that did not have both recorded warnings and
\* no error, and both have finished as 'partial', reported to finishJob.
C30_Witness ==
  \E j, k \in JobIds :
    /\ jobs[j].timedOut /\ ~jobs[k].timedOut
    /\ \A i \in {j, k} :
         /\ jobs[i].status = "finished"
         /\ jobs[i].warnings > 0 /\ jobs[i].errors = 0
         /\ jobs[i].result = "partial" /\ jobs[i].loggedResult = "partial"

\* A job that timed out and recorded neither warning nor error has finished as
\* 'success'.
C30_SuccessCase ==
  \E j \in JobIds :
    /\ jobs[j].timedOut /\ jobs[j].status = "finished"
    /\ jobs[j].warnings = 0 /\ jobs[j].errors = 0
    /\ jobs[j].result = "success" /\ jobs[j].loggedResult = "success"

====
